---------------------------- MODULE Spec2Model ----------------------------
(***************************************************************************)
(* product-config: the validation engine of src/lib.rs.                    *)
(*                                                                         *)
(* Config::new builds two maps from a schema document (alias -> option,    *)
(* unit name -> compiled pattern); Config::validate checks one             *)
(* (product_version, option_name, option_value) triple against them.       *)
(*                                                                         *)
(* Text is a sequence of one-character strings, so that parsing and        *)
(* formatting are computed character by character and are not the          *)
(* identity ("+5" parses to 5 and prints as "5").  Option<T> is a sequence *)
(* of length 0 (None) or 1 (Some).  Result<T> is a record with ok, val or  *)
(* ok, err.                                                                *)
(***************************************************************************)
EXTENDS Integers, Sequences, FiniteSets, TLC

None == << >>
Some(x) == << x >>
is_some(o) == Len(o) = 1
is_none(o) == Len(o) = 0
unwrap(o) == o[1]

Ok(v) == [ok |-> TRUE, val |-> v]
Err(e) == [ok |-> FALSE, err |-> e]

(***************************************************************************)
(* Characters and decimal magnitudes.                                      *)
(***************************************************************************)
DigitChars == << "0", "1", "2", "3", "4", "5", "6", "7", "8", "9" >>
Digits == { DigitChars[i] : i \in 1..10 }
DigitVal(c) == (CHOOSE i \in 1..10 : DigitChars[i] = c) - 1

\* The characters of the model's texts in ASCII order (the order str::cmp uses).
Ascii == << "$", "*", "+", "-", ".",
            "0", "1", "2", "3", "4", "5", "6", "7", "8", "9",
            "?", "N", "\\", "^",
            "a", "b", "c", "d", "e", "f", "g", "i", "l", "m", "n", "r", "s",
            "t", "u", "x", "y" >>
Code(c) == CHOOSE i \in 1..Len(Ascii) : Ascii[i] = c

AllDigits(s) == \A i \in 1..Len(s) : s[i] \in Digits

RECURSIVE StripZeros(_)
StripZeros(ds) ==
    IF Len(ds) > 1 /\ ds[1] = "0" THEN StripZeros(Tail(ds)) ELSE ds

\* Lexicographic "less than" by character code, a proper prefix being smaller.
LexLt(a, b) ==
    \/ /\ Len(a) < Len(b)
       /\ \A j \in 1..Len(a) : a[j] = b[j]
    \/ \E i \in 1..Len(a) :
          /\ i <= Len(b)
          /\ \A j \in 1..(i - 1) : a[j] = b[j]
          /\ Code(a[i]) < Code(b[i])

\* Order of two decimal magnitudes without leading zeros.
MagLt(a, b) == Len(a) < Len(b) \/ (Len(a) = Len(b) /\ LexLt(a, b))

RECURSIVE NatToDigits(_)
NatToDigits(n) ==
    IF n < 10 THEN << DigitChars[n + 1] >>
    ELSE NatToDigits(n \div 10) \o << DigitChars[(n % 10) + 1] >>

I64MaxMag == << "9","2","2","3","3","7","2","0","3","6","8","5","4","7","7","5","8","0","7" >>
I64MinMag == << "9","2","2","3","3","7","2","0","3","6","8","5","4","7","7","5","8","0","8" >>
U64MaxMag == << "1","8","4","4","6","7","4","4","0","7","3","7","0","9","5","5","1","6","1","5" >>

(***************************************************************************)
(* str::parse::<bool>, ::<i64>, ::<usize>, ::<f64> and Display.            *)
(* A parsed integer is a sign and a decimal magnitude, so that the whole   *)
(* 64-bit range is represented exactly.                                    *)
(***************************************************************************)
ParseBool(s) ==
    IF s = << "t", "r", "u", "e" >> THEN Ok(TRUE)
    ELSE IF s = << "f", "a", "l", "s", "e" >> THEN Ok(FALSE)
    ELSE Err("ParseBoolError")

ParseI64(s) ==
    LET signed == Len(s) > 0 /\ s[1] \in { "+", "-" }
        neg    == Len(s) > 0 /\ s[1] = "-"
        body   == IF signed THEN Tail(s) ELSE s
        mag    == StripZeros(body)
    IN  IF Len(s) = 0 THEN Err("Empty")
        ELSE IF Len(body) = 0 \/ ~AllDigits(body) THEN Err("InvalidDigit")
        ELSE IF ~neg /\ MagLt(I64MaxMag, mag) THEN Err("PosOverflow")
        ELSE IF neg /\ MagLt(I64MinMag, mag) THEN Err("NegOverflow")
        ELSE Ok([neg |-> neg /\ mag # << "0" >>, mag |-> mag])

I64ToString(v) == IF v.neg THEN << "-" >> \o v.mag ELSE v.mag

I64Lt(a, b) ==
    IF a.neg # b.neg THEN a.neg
    ELSE IF a.neg THEN MagLt(b.mag, a.mag)
    ELSE MagLt(a.mag, b.mag)

\* usize on a 64-bit target: a leading "+" is accepted, a "-" is not a digit.
ParseUsize(s) ==
    LET signed == Len(s) > 0 /\ s[1] = "+"
        body   == IF signed THEN Tail(s) ELSE s
        mag    == StripZeros(body)
    IN  IF Len(s) = 0 THEN Err("Empty")
        ELSE IF Len(body) = 0 \/ ~AllDigits(body) THEN Err("InvalidDigit")
        ELSE IF MagLt(U64MaxMag, mag) THEN Err("PosOverflow")
        ELSE Ok([neg |-> FALSE, mag |-> mag])

UsizeOf(n) == [neg |-> FALSE, mag |-> NatToDigits(n)]

RECURSIVE StripTrailingZeros(_)
StripTrailingZeros(ds) ==
    IF Len(ds) > 0 /\ ds[Len(ds)] = "0"
    THEN StripTrailingZeros(SubSeq(ds, 1, Len(ds) - 1)) ELSE ds

IndexOf(s, c) ==
    IF \E i \in 1..Len(s) : s[i] = c
    THEN CHOOSE i \in 1..Len(s) : s[i] = c /\ \A j \in 1..(i - 1) : s[j] # c
    ELSE 0

\* f64: "inf", "NaN" and plain decimals [sign] digits [. digits] with at most
\* 15 significant digits, on which the f64 order is the decimal order and
\* Display prints the shortest decimal.  Exponent forms are not drawn.
ParseF64(s) ==
    LET signed == Len(s) > 0 /\ s[1] \in { "+", "-" }
        neg    == Len(s) > 0 /\ s[1] = "-"
        body   == IF signed THEN Tail(s) ELSE s
        dot    == IndexOf(body, ".")
        ip     == IF dot = 0 THEN body ELSE SubSeq(body, 1, dot - 1)
        fp     == IF dot = 0 THEN << >> ELSE SubSeq(body, dot + 1, Len(body))
    IN  IF body = << "i", "n", "f" >>
        THEN Ok([cls |-> "inf", neg |-> neg, ip |-> << >>, fp |-> << >>])
        ELSE IF s = << "N", "a", "N" >>
        THEN Ok([cls |-> "nan", neg |-> FALSE, ip |-> << >>, fp |-> << >>])
        ELSE IF Len(ip) + Len(fp) = 0 \/ ~AllDigits(ip) \/ ~AllDigits(fp)
        THEN Err("ParseFloatError")
        ELSE Ok([cls |-> "num", neg |-> neg,
                 ip  |-> StripZeros(IF Len(ip) = 0 THEN << "0" >> ELSE ip),
                 fp  |-> StripTrailingZeros(fp)])

F64IsZero(v) == v.cls = "num" /\ v.ip = << "0" >> /\ v.fp = << >>

\* a < b on non-negative decimals
DecLt(a, b) ==
    \/ MagLt(a.ip, b.ip)
    \/ a.ip = b.ip /\ LexLt(a.fp, b.fp)

F64Lt(a, b) ==
    IF a.cls = "nan" \/ b.cls = "nan" THEN FALSE
    ELSE IF F64IsZero(a) /\ F64IsZero(b) THEN FALSE
    ELSE IF a.neg # b.neg THEN a.neg
    ELSE IF a.cls = "inf" \/ b.cls = "inf"
    THEN IF a.neg THEN a.cls = "inf" /\ b.cls # "inf"
                  ELSE b.cls = "inf" /\ a.cls # "inf"
    ELSE IF a.neg THEN DecLt(b, a) ELSE DecLt(a, b)

F64ToString(v) ==
    IF v.cls = "nan" THEN << "N", "a", "N" >>
    ELSE (IF v.neg THEN << "-" >> ELSE << >>) \o
         (IF v.cls = "inf" THEN << "i", "n", "f" >>
          ELSE v.ip \o (IF v.fp = << >> THEN << >> ELSE << "." >> \o v.fp))

(***************************************************************************)
(* semver::Version: parse, Display and Ord.  MAJOR.MINOR.PATCH with an     *)
(* optional -PRERELEASE of dot-separated identifiers; build metadata is    *)
(* not drawn by the model.                                                 *)
(***************************************************************************)
RECURSIVE Split(_, _)
Split(s, c) ==
    LET i == IndexOf(s, c)
    IN  IF i = 0 THEN << s >>
        ELSE << SubSeq(s, 1, i - 1) >> \o Split(SubSeq(s, i + 1, Len(s)), c)

RECURSIVE Join(_, _)
Join(parts, c) ==
    IF Len(parts) = 0 THEN << >>
    ELSE IF Len(parts) = 1 THEN parts[1]
    ELSE parts[1] \o << c >> \o Join(Tail(parts), c)

IdentChars == Digits \cup { "-", "N" } \cup { Ascii[i] : i \in Code("a")..Len(Ascii) }

NumericOk(p) ==
    /\ Len(p) > 0
    /\ AllDigits(p)
    /\ Len(p) = 1 \/ p[1] # "0"
    /\ ~MagLt(U64MaxMag, p)

PreIdentOk(p) ==
    /\ Len(p) > 0
    /\ \A i \in 1..Len(p) : p[i] \in IdentChars
    /\ AllDigits(p) => NumericOk(p)

Version_parse(s) ==
    LET dash  == IndexOf(s, "-")
        core  == IF dash = 0 THEN s ELSE SubSeq(s, 1, dash - 1)
        parts == Split(core, ".")
        pre   == IF dash = 0 THEN << >>
                 ELSE Split(SubSeq(s, dash + 1, Len(s)), ".")
    IN  IF /\ Len(parts) = 3
           /\ \A i \in 1..3 : NumericOk(parts[i])
           /\ \A i \in 1..Len(pre) : PreIdentOk(pre[i])
        THEN Ok([major |-> parts[1], minor |-> parts[2], patch |-> parts[3],
                 pre |-> pre])
        ELSE Err("SemVerError")

Version_to_string(v) ==
    Join(<< v.major, v.minor, v.patch >>, ".") \o
    (IF Len(v.pre) = 0 THEN << >> ELSE << "-" >> \o Join(v.pre, "."))

\* Precedence of two pre-release identifiers: numeric below alphanumeric.
IdentLt(a, b) ==
    IF AllDigits(a) /\ AllDigits(b) THEN MagLt(a, b)
    ELSE IF AllDigits(a) THEN TRUE
    ELSE IF AllDigits(b) THEN FALSE
    ELSE LexLt(a, b)

PreLt(p, q) ==
    IF Len(p) = 0 THEN FALSE
    ELSE IF Len(q) = 0 THEN TRUE
    ELSE \/ /\ Len(p) < Len(q)
            /\ \A j \in 1..Len(p) : p[j] = q[j]
         \/ \E i \in 1..Len(p) :
               /\ i <= Len(q)
               /\ \A j \in 1..(i - 1) : p[j] = q[j]
               /\ IdentLt(p[i], q[i])

Version_lt(a, b) ==
    IF a.major # b.major THEN MagLt(a.major, b.major)
    ELSE IF a.minor # b.minor THEN MagLt(a.minor, b.minor)
    ELSE IF a.patch # b.patch THEN MagLt(a.patch, b.patch)
    ELSE PreLt(a.pre, b.pre)

Version_le(a, b) == ~Version_lt(b, a)

(***************************************************************************)
(* regex::Regex.  The dialect of the model's patterns: literals, ".",      *)
(* "\d", escaped metacharacters, the assertions "^" and "$", and the       *)
(* repetitions "+", "*", "?" (a "?" after a repetition makes it lazy).     *)
(* A compiled pattern is the sequence of its items; is_match searches for  *)
(* a match starting anywhere in the text, as Regex::is_match does.         *)
(***************************************************************************)
MetaChars == { "\\", ".", "+", "*", "?", "^", "$" }
RepChars == { "+", "*", "?" }

Item(t, c) == [t |-> t, c |-> c, min |-> 1, unb |-> FALSE, rep |-> FALSE]

ApplyRep(item, c) ==
    IF c = "?" /\ item.rep
    THEN [item EXCEPT !.rep = FALSE]
    ELSE [item EXCEPT !.min = IF c = "+" THEN item.min ELSE 0,
                      !.unb = item.unb \/ c # "?",
                      !.rep = TRUE]

RECURSIVE Compile(_, _, _)
Compile(p, i, items) ==
    IF i > Len(p) THEN Ok(items)
    ELSE LET c == p[i] IN
      IF c \in RepChars
      THEN IF Len(items) = 0 THEN Err("RepetitionMissing")
           ELSE Compile(p, i + 1,
                        [items EXCEPT ![Len(items)] = ApplyRep(items[Len(items)], c)])
      ELSE IF c = "\\"
      THEN IF i = Len(p) THEN Err("EscapeUnexpectedEof")
           ELSE IF p[i + 1] = "d" THEN Compile(p, i + 2, Append(items, Item("digit", "d")))
           ELSE IF p[i + 1] \in MetaChars
           THEN Compile(p, i + 2, Append(items, Item("lit", p[i + 1])))
           ELSE Err("EscapeUnrecognized")
      ELSE IF c = "^" THEN Compile(p, i + 1, Append(items, Item("start", c)))
      ELSE IF c = "$" THEN Compile(p, i + 1, Append(items, Item("end", c)))
      ELSE IF c = "." THEN Compile(p, i + 1, Append(items, Item("any", c)))
      ELSE Compile(p, i + 1, Append(items, Item("lit", c)))

Regex_new(pattern) == Compile(pattern, 1, << >>)

AtomOk(item, text, pos) ==
    CASE item.t = "start" -> pos = 1
      [] item.t = "end"   -> pos = Len(text) + 1
      [] item.t = "any"   -> pos <= Len(text)
      [] item.t = "digit" -> pos <= Len(text) /\ text[pos] \in Digits
      [] item.t = "lit"   -> pos <= Len(text) /\ text[pos] = item.c

RECURSIVE MatchFrom(_, _, _, _)
MatchFrom(items, i, text, pos) ==
    IF i > Len(items) THEN TRUE
    ELSE LET it == items[i] IN
      IF it.t \in { "start", "end" }
      THEN /\ it.min = 1 => AtomOk(it, text, pos)
           /\ MatchFrom(items, i + 1, text, pos)
      ELSE \E k \in it.min..(IF it.unb THEN Len(text) + 1 - pos ELSE 1) :
              /\ \A j \in 0..(k - 1) : AtomOk(it, text, pos + j)
              /\ MatchFrom(items, i + 1, text, pos + k)

is_match(regex, text) ==
    \E pos \in 1..(Len(text) + 1) : MatchFrom(regex, 1, text, pos)

(***************************************************************************)
(* error::Error, the variants lib.rs constructs.                           *)
(***************************************************************************)
ConfigOptionNotFound(option_name) ==
    [kind |-> "ConfigOptionNotFound", option_name |-> option_name]
VersionNotSupported(option_name, product_version, required_version) ==
    [kind |-> "VersionNotSupported", option_name |-> option_name,
     product_version |-> product_version, required_version |-> required_version]
VersionDeprecated(option_name, product_version, deprecated_version) ==
    [kind |-> "VersionDeprecated", option_name |-> option_name,
     product_version |-> product_version, deprecated_version |-> deprecated_version]
ConfigValueMissing(option_name) ==
    [kind |-> "ConfigValueMissing", option_name |-> option_name]
DatatypeNotMatching(option_name, value, datatype) ==
    [kind |-> "DatatypeNotMatching", option_name |-> option_name,
     value |-> value, datatype |-> datatype]
ConfigValueOutOfBounds(option_name, received, expected) ==
    [kind |-> "ConfigValueOutOfBounds", option_name |-> option_name,
     received |-> received, expected |-> expected]
UnitNotProvided(option_name) ==
    [kind |-> "UnitNotProvided", option_name |-> option_name]
UnitSettingNotFound(option_name, unit) ==
    [kind |-> "UnitSettingNotFound", option_name |-> option_name, unit |-> unit]
DatatypeRegexNotMatching(option_name, value) ==
    [kind |-> "DatatypeRegexNotMatching", option_name |-> option_name, value |-> value]
ConfigValueNotInAllowedValues(option_name, value, allowed_values) ==
    [kind |-> "ConfigValueNotInAllowedValues", option_name |-> option_name,
     value |-> value, allowed_values |-> allowed_values]
ConfigSettingNotFound(name) ==
    [kind |-> "ConfigSettingNotFound", name |-> name]
EmptyRegexPattern(unit) ==
    [kind |-> "EmptyRegexPattern", unit |-> unit]
InvalidRegexPattern(unit, regex) ==
    [kind |-> "InvalidRegexPattern", unit |-> unit, regex |-> regex]
\* The conversion of a semver parse error into Error lives in error.rs.
VersionParseError == [kind |-> "VersionParseError"]
\* Whatever error the schema source (reader.rs) fails with.
ReaderError == [kind |-> "ReaderError"]

(***************************************************************************)
(* The scalar types T of check_datatype_scalar::<T> and check_bound::<T>.  *)
(***************************************************************************)
type_name(T) ==
    CASE T = "bool"  -> << "b", "o", "o", "l" >>
      [] T = "i64"   -> << "i", "6", "4" >>
      [] T = "f64"   -> << "f", "6", "4" >>
      [] T = "usize" -> << "u", "s", "i", "z", "e" >>

from_str(T, s) ==
    CASE T = "bool"  -> ParseBool(s)
      [] T = "i64"   -> ParseI64(s)
      [] T = "f64"   -> ParseF64(s)
      [] T = "usize" -> ParseUsize(s)

to_string(T, v) ==
    CASE T = "bool"  -> IF v THEN << "t", "r", "u", "e" >>
                             ELSE << "f", "a", "l", "s", "e" >>
      [] T = "i64"   -> I64ToString(v)
      [] T = "f64"   -> F64ToString(v)
      [] T = "usize" -> I64ToString(v)

\* PartialOrd::lt of T
lt(T, a, b) ==
    CASE T = "bool"  -> ~a /\ b
      [] T = "i64"   -> I64Lt(a, b)
      [] T = "f64"   -> F64Lt(a, b)
      [] T = "usize" -> I64Lt(a, b)

parse(option_name, T, to_parse) ==
    LET r == from_str(T, to_parse)
    IN  IF r.ok THEN Ok(r.val)
        ELSE Err(DatatypeNotMatching(option_name, to_parse, type_name(T)))

\* Mutant: the lower bound itself is rejected ("<=" for "<" at line 334).
min_bound_exclusive(T, val, min) == lt(T, val, min) \/ val = min

min_bound(T, val, min) == lt(T, val, min)

max_bound(T, val, min) == lt(T, min, val)

\* A call through the function pointer `check`, which is one of the two above.
call(check, T, val, bound) ==
    CASE check = "min_bound" -> min_bound(T, val, bound)
      [] check = "max_bound" -> max_bound(T, val, bound)

check_bound(option_name, T, value, bound, check) ==
    IF is_some(bound)
    THEN LET b == parse(option_name, T, unwrap(bound))
         IN  IF ~b.ok THEN b
             ELSE IF call(check, T, value, b.val)
             THEN Err(ConfigValueOutOfBounds(option_name, to_string(T, value),
                                             to_string(T, b.val)))
             ELSE Ok(value)
    ELSE Ok(value)

\* Mutant: without the emptiness check of lines 363-367.
check_datatype_scalar_no_empty_check(option_name, T, option_value, min, max) ==
    LET val == parse(option_name, T, option_value) IN
      IF ~val.ok THEN val
      ELSE LET lo == check_bound(option_name, T, val.val, min, "min_bound") IN
        IF ~lo.ok THEN lo
        ELSE LET hi == check_bound(option_name, T, val.val, max, "max_bound") IN
          IF ~hi.ok THEN hi
          ELSE Ok(val.val)

check_datatype_scalar(option_name, T, option_value, min, max) ==
    IF Len(option_value) = 0 THEN Err(ConfigValueMissing(option_name))
    ELSE LET val == parse(option_name, T, option_value) IN
      IF ~val.ok THEN val
      ELSE LET lo == check_bound(option_name, T, val.val, min, "min_bound") IN
        IF ~lo.ok THEN lo
        ELSE LET hi == check_bound(option_name, T, val.val, max, "max_bound") IN
          IF ~hi.ok THEN hi
          ELSE Ok(val.val)

\* Mutant: the unit is looked at before the emptiness of the value.
check_datatype_string_unit_first(units, option_name, option_value, min, max, unit) ==
    IF is_none(unit) THEN Err(UnitNotProvided(option_name))
    ELSE IF unwrap(unit) \notin DOMAIN units
    THEN Err(UnitSettingNotFound(option_name, unwrap(unit)))
    ELSE IF Len(option_value) = 0 THEN Err(ConfigValueMissing(option_name))
    ELSE IF ~is_match(units[unwrap(unit)], option_value)
    THEN Err(DatatypeRegexNotMatching(option_name, option_value))
    ELSE Ok(option_value)

\* self.config_setting_units is `units`.  The two check_bound calls on the
\* length are statements whose Result is dropped (lines 428 and 430 end in
\* ";" without "?"), so neither outcome reaches the caller.
check_datatype_string(units, option_name, option_value, min, max, unit) ==
    IF Len(option_value) = 0 THEN Err(ConfigValueMissing(option_name))
    ELSE LET len     == Len(option_value)
             dropped == << check_bound(option_name, "usize", UsizeOf(len), min, "min_bound"),
                           check_bound(option_name, "usize", UsizeOf(len), max, "max_bound") >>
         IN  IF is_none(unit) THEN Err(UnitNotProvided(option_name))
             ELSE IF unwrap(unit) \notin DOMAIN units
             THEN Err(UnitSettingNotFound(option_name, unwrap(unit)))
             ELSE IF ~is_match(units[unwrap(unit)], option_value)
             THEN Err(DatatypeRegexNotMatching(option_name, option_value))
             ELSE Ok(option_value)

AsUnit(r) == IF r.ok THEN Ok("unit") ELSE r

\* Mutant: an Array value is checked against its unit like a String.
check_datatype_array_as_string(units, option_name, option_value, datatype) ==
    CASE datatype.type = "bool" ->
           AsUnit(check_datatype_scalar(option_name, "bool", option_value, None, None))
      [] datatype.type = "integer" ->
           AsUnit(check_datatype_scalar(option_name, "i64", option_value,
                                        datatype.min, datatype.max))
      [] datatype.type = "float" ->
           AsUnit(check_datatype_scalar(option_name, "f64", option_value,
                                        datatype.min, datatype.max))
      [] datatype.type = "string" ->
           AsUnit(check_datatype_string(units, option_name, option_value,
                                        datatype.min, datatype.max, datatype.unit))
      [] datatype.type = "array" ->
           AsUnit(check_datatype_string(units, option_name, option_value,
                                        None, None, datatype.unit))

check_datatype(units, option_name, option_value, datatype) ==
    CASE datatype.type = "bool" ->
           AsUnit(check_datatype_scalar(option_name, "bool", option_value, None, None))
      [] datatype.type = "integer" ->
           AsUnit(check_datatype_scalar(option_name, "i64", option_value,
                                        datatype.min, datatype.max))
      [] datatype.type = "float" ->
           AsUnit(check_datatype_scalar(option_name, "f64", option_value,
                                        datatype.min, datatype.max))
      [] datatype.type = "string" ->
           AsUnit(check_datatype_string(units, option_name, option_value,
                                        datatype.min, datatype.max, datatype.unit))
      [] datatype.type = "array" -> Ok("unit")

Contains(list, x) == \E i \in 1..Len(list) : list[i] = x

\* Mutant: an empty allow-list rejects every value (without the is_empty test
\* of line 319).
check_allowed_values_empty_rejects(option_name, option_value, allowed_values) ==
    IF /\ is_some(allowed_values)
       /\ ~Contains(unwrap(allowed_values), option_value)
    THEN Err(ConfigValueNotInAllowedValues(option_name, option_value,
                                           unwrap(allowed_values)))
    ELSE Ok("unit")

check_allowed_values(option_name, option_value, allowed_values) ==
    IF /\ is_some(allowed_values)
       /\ Len(unwrap(allowed_values)) # 0
       /\ ~Contains(unwrap(allowed_values), option_value)
    THEN Err(ConfigValueNotInAllowedValues(option_name, option_value,
                                           unwrap(allowed_values)))
    ELSE Ok("unit")

\* Mutant: the option's own version is rejected too (">=" for ">" at line 249).
check_version_boundary_unsupported(option_name, product_version, option_version, deprecated_since) ==
    LET pv == Version_parse(product_version)
        ov == Version_parse(option_version)
    IN  IF ~pv.ok THEN Err(VersionParseError)
        ELSE IF ~ov.ok THEN Err(VersionParseError)
        ELSE IF Version_le(pv.val, ov.val)
        THEN Err(VersionNotSupported(option_name, Version_to_string(pv.val),
                                     Version_to_string(ov.val)))
        ELSE IF is_some(deprecated_since)
        THEN LET ds == Version_parse(unwrap(deprecated_since)) IN
             IF ~ds.ok THEN Err(VersionParseError)
             ELSE IF Version_le(ds.val, pv.val)
             THEN Err(VersionDeprecated(option_name, Version_to_string(pv.val),
                                        Version_to_string(ds.val)))
             ELSE Ok("unit")
        ELSE Ok("unit")

\* Mutant: deprecation starts after the deprecation version ("<" for "<=" at
\* line 261).
check_version_deprecated_late(option_name, product_version, option_version, deprecated_since) ==
    LET pv == Version_parse(product_version)
        ov == Version_parse(option_version)
    IN  IF ~pv.ok THEN Err(VersionParseError)
        ELSE IF ~ov.ok THEN Err(VersionParseError)
        ELSE IF Version_lt(pv.val, ov.val)
        THEN Err(VersionNotSupported(option_name, Version_to_string(pv.val),
                                     Version_to_string(ov.val)))
        ELSE IF is_some(deprecated_since)
        THEN LET ds == Version_parse(unwrap(deprecated_since)) IN
             IF ~ds.ok THEN Err(VersionParseError)
             ELSE IF Version_lt(ds.val, pv.val)
             THEN Err(VersionDeprecated(option_name, Version_to_string(pv.val),
                                        Version_to_string(ds.val)))
             ELSE Ok("unit")
        ELSE Ok("unit")

check_version_supported_or_deprecated(option_name, product_version, option_version, deprecated_since) ==
    LET pv == Version_parse(product_version)
        ov == Version_parse(option_version)
    IN  IF ~pv.ok THEN Err(VersionParseError)
        ELSE IF ~ov.ok THEN Err(VersionParseError)
        ELSE IF Version_lt(pv.val, ov.val)
        THEN Err(VersionNotSupported(option_name, Version_to_string(pv.val),
                                     Version_to_string(ov.val)))
        ELSE IF is_some(deprecated_since)
        THEN LET ds == Version_parse(unwrap(deprecated_since)) IN
             IF ~ds.ok THEN Err(VersionParseError)
             ELSE IF Version_le(ds.val, pv.val)
             THEN Err(VersionDeprecated(option_name, Version_to_string(pv.val),
                                        Version_to_string(ds.val)))
             ELSE Ok("unit")
        ELSE Ok("unit")

\* Mutant: the datatype is checked before the version gate.
validate_type_first(self, product_version, option_name, option_value) ==
    IF option_name \notin DOMAIN self.config_options
    THEN Err(ConfigOptionNotFound(option_name))
    ELSE LET option == self.config_options[option_name]
             ver == check_version_supported_or_deprecated(
                        option_name, product_version,
                        option.as_of_version, option.deprecated_since)
             dt  == check_datatype(self.config_setting_units, option_name,
                                   option_value, option.datatype)
             av  == check_allowed_values(option_name, option_value,
                                         option.allowed_values)
         IN  IF ~dt.ok THEN dt
             ELSE IF ~ver.ok THEN ver
             ELSE IF ~av.ok THEN av
             ELSE Ok(option_value)

\* Mutant: an integer is returned as parsed and printed again, not as given.
validate_normalizing(self, product_version, option_name, option_value) ==
    IF option_name \notin DOMAIN self.config_options
    THEN Err(ConfigOptionNotFound(option_name))
    ELSE LET option == self.config_options[option_name]
             ver == check_version_supported_or_deprecated(
                        option_name, product_version,
                        option.as_of_version, option.deprecated_since)
             dt  == check_datatype(self.config_setting_units, option_name,
                                   option_value, option.datatype)
             av  == check_allowed_values(option_name, option_value,
                                         option.allowed_values)
         IN  IF ~ver.ok THEN ver
             ELSE IF ~dt.ok THEN dt
             ELSE IF ~av.ok THEN av
             ELSE IF option.datatype.type = "integer"
             THEN Ok(I64ToString(ParseI64(option_value).val))
             ELSE Ok(option_value)

validate(self, product_version, option_name, option_value) ==
    IF option_name \notin DOMAIN self.config_options
    THEN Err(ConfigOptionNotFound(option_name))
    ELSE LET option == self.config_options[option_name]
             ver == check_version_supported_or_deprecated(
                        option_name, product_version,
                        option.as_of_version, option.deprecated_since)
             dt  == check_datatype(self.config_setting_units, option_name,
                                   option_value, option.datatype)
             av  == check_allowed_values(option_name, option_value,
                                         option.allowed_values)
         IN  IF ~ver.ok THEN ver
             ELSE IF ~dt.ok THEN dt
             ELSE IF ~av.ok THEN av
             ELSE Ok(option_value)

(***************************************************************************)
(* Config::new                                                             *)
(***************************************************************************)
EmptyMap == [k \in {} |-> << >>]
insert(map, k, v) == [x \in (DOMAIN map) \cup { k } |-> IF x = k THEN v ELSE map[x]]

\* Mutant: a name already in the map keeps its first option.
RECURSIVE InsertNames_first_wins(_, _, _)
InsertNames_first_wins(map, config_option, j) ==
    IF j > Len(config_option.option_names) THEN map
    ELSE InsertNames_first_wins(
             IF config_option.option_names[j].name \in DOMAIN map THEN map
             ELSE insert(map, config_option.option_names[j].name, config_option),
             config_option, j + 1)

\* lines 145-147: every name of one option
RECURSIVE InsertNames(_, _, _)
InsertNames(map, config_option, j) ==
    IF j > Len(config_option.option_names) THEN map
    ELSE InsertNames(insert(map, config_option.option_names[j].name, config_option),
                     config_option, j + 1)

\* lines 143-148: every option, in document order
RECURSIVE InsertOptions(_, _, _)
InsertOptions(map, config_options, i) ==
    IF i > Len(config_options) THEN map
    ELSE InsertOptions(InsertNames(map, config_options[i], 1), config_options, i + 1)

\* Mutant: a malformed unit is left out and construction goes on.
RECURSIVE InsertUnits_skipping(_, _, _)
InsertUnits_skipping(map, units, i) ==
    IF i > Len(units) THEN Ok(map)
    ELSE LET unit == units[i] IN
      IF Len(unit.name) = 0
      THEN InsertUnits_skipping(map, units, i + 1)
      ELSE IF is_none(unit.regex) \/ unit.regex = Some(<< >>)
      THEN InsertUnits_skipping(map, units, i + 1)
      ELSE LET regex == Regex_new(unwrap(unit.regex)) IN
        IF ~regex.ok
        THEN InsertUnits_skipping(map, units, i + 1)
        ELSE InsertUnits_skipping(insert(map, unit.name, regex.val), units, i + 1)

\* lines 152-182: every unit, in document order, returning at the first error
RECURSIVE InsertUnits(_, _, _)
InsertUnits(map, units, i) ==
    IF i > Len(units) THEN Ok(map)
    ELSE LET unit == units[i] IN
      IF Len(unit.name) = 0
      THEN Err(ConfigSettingNotFound(<< "u", "n", "i", "t" >>))
      ELSE IF is_none(unit.regex) \/ unit.regex = Some(<< >>)
      THEN Err(EmptyRegexPattern(unit.name))
      ELSE LET regex == Regex_new(unwrap(unit.regex)) IN
        IF ~regex.ok
        THEN Err(InvalidRegexPattern(unit.name, unwrap(unit.regex)))
        ELSE InsertUnits(insert(map, unit.name, regex.val), units, i + 1)

new(read) ==
    IF ~read.ok THEN Err(read.err)
    ELSE LET root == read.val
             config_options_map == InsertOptions(EmptyMap, root.config_options, 1)
             config_setting_units_map == InsertUnits(EmptyMap, root.config_settings.unit, 1)
         IN  IF ~config_setting_units_map.ok THEN config_setting_units_map
             ELSE Ok([config_setting_units |-> config_setting_units_map.val,
                      config_options |-> config_options_map])

(***************************************************************************)
(* The schema documents, versions, names and values the model draws.       *)
(***************************************************************************)
MaxUnits == 2
MaxMinor == 5

\* regex texts
reMemory == << "^", "\\", "d", "+", "g", "$" >>
reNumber == << "\\", "d", "+" >>
reBroken == << "+", "a" >>

uMemory == [name |-> << "m", "e", "m", "o", "r", "y" >>, regex |-> Some(reMemory)]
uNumber == [name |-> << "n", "u", "m", "b", "e", "r" >>, regex |-> Some(reNumber)]
uNoName == [name |-> << >>, regex |-> Some(reBroken)]
uNoRegex == [name |-> << "t", "i", "m", "e" >>, regex |-> None]
uEmptyRegex == [name |-> << "s", "i", "z", "e" >>, regex |-> Some(<< >>)]
uBroken == [name |-> << "b", "a", "d" >>, regex |-> Some(reBroken)]
UnitPool == { uMemory, uNoName, uNoRegex, uEmptyRegex, uBroken }
UnitLists == UNION { [1..k -> UnitPool] : k \in 0..MaxUnits }

Ver(major, minor, patch) == Join(<< NatToDigits(major), NatToDigits(minor), NatToDigits(patch) >>, ".")
vRc == << "1", ".", "0", ".", "0", "-", "r", "c" >>
vTwoParts == << "1", ".", "0" >>
vWord == << "a", "b", "c" >>
Versions == { Ver(0, m, 0) : m \in 0..MaxMinor } \cup { Ver(0, 10, 0), Ver(1, 0, 0), vRc, vTwoParts, vWord }

Name(n, k) == [name |-> n, kind |-> k]
nPort == << "p", "o", "r", "t" >>
nHttpPort == << "h", "t", "t", "p", ".", "p", "o", "r", "t" >>
nMem == << "m", "e", "m" >>
nMemLen == << "m", "e", "m", "l", "e", "n" >>
nOld == << "o", "l", "d" >>
nOdd == << "o", "d", "d" >>
nSize == << "s", "i", "z", "e" >>
nFlag == << "f", "l", "a", "g" >>
nArr == << "a", "r", "r" >>
nRatio == << "r", "a", "t", "i", "o" >>
nRaw == << "r", "a", "w" >>
nWeird == << "w", "e", "i", "r", "d" >>
nInv == << "i", "n", "v" >>
nBadVer == << "b", "a", "d", "v", "e", "r" >>
nBadDep == << "b", "a", "d", "d", "e", "p" >>
nBadMin == << "b", "a", "d", "m", "i", "n" >>
nNum == << "n", "u", "m" >>
nShadow == << "s", "h", "a", "d", "o", "w" >>
nList == << "l", "i", "s", "t" >>
nNope == << "n", "o", "p", "e" >>
UnknownNames == { nNope, << >> }

Bool == [type |-> "bool"]
Integer(min, max) == [type |-> "integer", min |-> min, max |-> max, unit |-> None, accepted_units |-> None, default_unit |-> None]
Float(min, max) == [type |-> "float", min |-> min, max |-> max, unit |-> None, accepted_units |-> None, default_unit |-> None]
String(min, max, unit) == [type |-> "string", min |-> min, max |-> max, unit |-> unit, accepted_units |-> None, default_unit |-> None]
Array(unit) == [type |-> "array", unit |-> unit, accepted_units |-> IF is_some(unit) THEN Some(<< unwrap(unit) >>) ELSE None, default_unit |-> unit]

ConfigOption(names, datatype, allowed_values, as_of_version, deprecated_since) ==
    [option_names |-> names, datatype |-> datatype, allowed_values |-> allowed_values,
     as_of_version |-> as_of_version, deprecated_since |-> deprecated_since]

v1g == << "1", "g" >>
v2g == << "2", "g" >>
v10g == << "1", "0", "g" >>
v1000g == << "1", "0", "0", "0", "g" >>
vA1g == << "a", "1", "g" >>
vTrue == << "t", "r", "u", "e" >>
vFalse == << "f", "a", "l", "s", "e" >>
vMinus1 == << "-", "1" >>
vZero == << "0" >>
vPlus5 == << "+", "5" >>
v007 == << "0", "0", "7" >>
v1000 == << "1", "0", "0", "0" >>
v65535 == << "6", "5", "5", "3", "5" >>
v100000 == << "1", "0", "0", "0", "0", "0" >>
vHuge == << "9", "2", "2", "3", "3", "7", "2", "0", "3", "6", "8", "5", "4", "7", "7", "5", "8", "0", "8" >>
vHalf == << "0", ".", "5" >>
v1p50 == << "1", ".", "5", "0" >>
v1p51 == << "1", ".", "5", "1" >>
vNaN == << "N", "a", "N" >>
Values == { << >>, vWord, vTrue, vFalse, vMinus1, vZero, vPlus5, v007, v1000, v65535, v100000, vHuge, vHalf, v1p50, v1p51, vNaN, v1g, v2g, v10g, v1000g, vA1g }

oPort == ConfigOption(<< Name(nPort, "env"), Name(nHttpPort, "conf") >>, Integer(Some(vZero), Some(v65535)), None, Ver(0, 5, 0), None)
oMem == ConfigOption(<< Name(nMem, "conf") >>, String(None, None, Some(uMemory.name)), None, Ver(1, 0, 0), None)
oMemLen == ConfigOption(<< Name(nMemLen, "conf") >>, String(Some(<< "3" >>), Some(<< "4" >>), Some(uMemory.name)), None, Ver(0, 1, 0), None)
oOld == ConfigOption(<< Name(nOld, "conf") >>, String(None, None, Some(uMemory.name)), None, Ver(0, 1, 0), Some(Ver(0, 4, 0)))
oOdd == ConfigOption(<< Name(nOdd, "cli") >>, Integer(None, None), None, Ver(1, 0, 0), Some(Ver(0, 4, 0)))
oSize == ConfigOption(<< Name(nSize, "env") >>, String(None, None, Some(uMemory.name)), Some(<< v2g, v1g, vWord >>), Ver(0, 1, 0), None)
oFlag == ConfigOption(<< Name(nFlag, "cli") >>, Bool, Some(<< >>), Ver(0, 1, 0), None)
oArr == ConfigOption(<< Name(nArr, "conf") >>, Array(Some(nNope)), Some(<< vWord, << >> >>), Ver(0, 5, 0), None)
oRatio == ConfigOption(<< Name(nRatio, "conf") >>, Float(Some(vHalf), Some(v1p50)), None, Ver(0, 1, 0), None)
oRaw == ConfigOption(<< Name(nRaw, "conf") >>, String(None, None, None), None, Ver(0, 1, 0), None)
oWeird == ConfigOption(<< Name(nWeird, "conf") >>, String(None, None, Some(nNope)), None, Ver(0, 1, 0), None)
oInv == ConfigOption(<< Name(nInv, "env") >>, Integer(Some(v1000), Some(vPlus5)), None, Ver(0, 1, 0), None)
oBadVer == ConfigOption(<< Name(nBadVer, "env") >>, Integer(None, None), None, vWord, None)
oBadDep == ConfigOption(<< Name(nBadDep, "env") >>, Bool, None, Ver(0, 1, 0), Some(vTwoParts))
oBadMin == ConfigOption(<< Name(nBadMin, "env") >>, Integer(Some(vWord), Some(v1000)), None, Ver(0, 1, 0), None)
oNum == ConfigOption(<< Name(nNum, "env") >>, String(None, None, Some(uNumber.name)), None, Ver(0, 1, 0), None)
oShadow == ConfigOption(<< Name(nHttpPort, "conf"), Name(nShadow, "cli") >>, Bool, None, vRc, None)

oList == ConfigOption(<< Name(nList, "cli") >>, Array(None), None, Ver(0, 1, 0), None)
MainOptions == << oList, oPort, oMem, oMemLen, oOld, oOdd, oSize, oFlag, oArr, oRatio, oRaw, oWeird, oInv, oBadVer, oBadDep, oBadMin, oNum, oShadow >>
FewOptions == << oShadow, oPort >>

ConfigItem(units, options) == [config_settings |-> [unit |-> units], config_options |-> options]
Documents == { ConfigItem(<< uMemory, uNumber >>, MainOptions) } \cup { ConfigItem(units, FewOptions) : units \in UnitLists }

\* ConfigReader::read: the schema source fails or yields a document.
Reads == { Err(ReaderError) } \cup { Ok(d) : d \in Documents }

(***************************************************************************)
(* The program: one construction, then any number of validate calls.       *)
(***************************************************************************)
VARIABLES config_reader, config, last
vars == << config_reader, config, last >>

Init ==
    /\ config_reader \in { [read |-> r] : r \in Reads }
    /\ config = None
    /\ last = None

New ==
    /\ config = None
    /\ config' = Some(new(config_reader.read))
    /\ UNCHANGED << config_reader, last >>

\* One call of validate on the built engine; `last` holds the call and its
\* result until the caller has taken it.
Validate(product_version, option_name, option_value) ==
    /\ is_some(config)
    /\ unwrap(config).ok
    /\ last = None
    /\ last' = Some([product_version |-> product_version,
                     option_name |-> option_name,
                     option_value |-> option_value,
                     result |-> validate(unwrap(config).val, product_version, option_name, option_value)])
    /\ UNCHANGED << config_reader, config >>

\* The caller takes the result; the engine is unchanged and can be called again.
Return ==
    /\ last # None
    /\ last' = None
    /\ UNCHANGED << config_reader, config >>

\* The names a caller asks about: the aliases of the engine and unknown ones.
OptionNames ==
    IF is_some(config) /\ unwrap(config).ok
    THEN (DOMAIN unwrap(config).val.config_options) \cup UnknownNames
    ELSE UnknownNames

Next ==
    \/ New
    \/ Return
    \/ \E product_version \in Versions, option_value \in Values :
          \E option_name \in OptionNames :
             Validate(product_version, option_name, option_value)

Spec == Init /\ [][Next]_vars

(***************************************************************************)
(* The call in `last` and the stages of its pipeline.                      *)
(***************************************************************************)
Called == last # None
Engine == unwrap(config).val
Call == unwrap(last)
Indexed == Called /\ Call.option_name \in DOMAIN Engine.config_options
TheOption == Engine.config_options[Call.option_name]
VersionStage == check_version_supported_or_deprecated(Call.option_name, Call.product_version, TheOption.as_of_version, TheOption.deprecated_since)
TypeStage == check_datatype(Engine.config_setting_units, Call.option_name, Call.option_value, TheOption.datatype)
AllowedStage == check_allowed_values(Call.option_name, Call.option_value, TheOption.allowed_values)
Failed(kind) == ~Call.result.ok /\ Call.result.err.kind = kind

\* The versions of the call, where they parse.
P == Version_parse(Call.product_version)
A == Version_parse(TheOption.as_of_version)
D == Version_parse(unwrap(TheOption.deprecated_since))
HasD == is_some(TheOption.deprecated_since)

(***************************************************************************)
(* C1: a validate call returns at most one error, that of the first        *)
(* failing stage in the order lookup, version gate, type check,            *)
(* allowed-values gate; an unknown name gives ConfigOptionNotFound for     *)
(* every version and value.                                                *)
(***************************************************************************)
C1_FirstFailingStage ==
    Called =>
      IF ~Indexed THEN Call.result = Err(ConfigOptionNotFound(Call.option_name))
      ELSE IF ~VersionStage.ok THEN Call.result = VersionStage
      ELSE IF ~TypeStage.ok THEN Call.result = TypeStage
      ELSE IF ~AllowedStage.ok THEN Call.result = AllowedStage
      ELSE Call.result.ok

\* A call that fails the version gate, the type check and the allow-list at once.
C1_Witness ==
    /\ Indexed
    /\ ~VersionStage.ok /\ ~TypeStage.ok /\ ~AllowedStage.ok
    /\ Call.result = VersionStage

(***************************************************************************)
(* C2: a call whose arguments satisfy the schema succeeds and returns      *)
(* exactly option_value; no successful call returns anything else.         *)
(***************************************************************************)
WithinBounds(T, value, min, max) ==
    LET v == from_str(T, value) IN
    /\ v.ok
    /\ is_some(min) => /\ from_str(T, unwrap(min)).ok
                       /\ \/ lt(T, from_str(T, unwrap(min)).val, v.val)
                          \/ from_str(T, unwrap(min)).val = v.val
    /\ is_some(max) => /\ from_str(T, unwrap(max)).ok
                       /\ \/ lt(T, v.val, from_str(T, unwrap(max)).val)
                          \/ from_str(T, unwrap(max)).val = v.val

SatisfiesDatatype(units, datatype, value) ==
    CASE datatype.type = "bool" -> value \in { vTrue, vFalse }
      [] datatype.type = "integer" -> WithinBounds("i64", value, datatype.min, datatype.max)
      [] datatype.type = "float" -> WithinBounds("f64", value, datatype.min, datatype.max)
      [] datatype.type = "string" ->
           /\ Len(value) > 0
           /\ WithinBounds("usize", NatToDigits(Len(value)), datatype.min, datatype.max)
           /\ is_some(datatype.unit)
           /\ unwrap(datatype.unit) \in DOMAIN units
           /\ is_match(units[unwrap(datatype.unit)], value)
      [] datatype.type = "array" -> TRUE

SatisfiesSchema ==
    /\ Indexed
    /\ P.ok /\ A.ok /\ Version_le(A.val, P.val)
    /\ HasD => D.ok /\ Version_lt(P.val, D.val)
    /\ SatisfiesDatatype(Engine.config_setting_units, TheOption.datatype, Call.option_value)
    /\ \/ is_none(TheOption.allowed_values)
       \/ unwrap(TheOption.allowed_values) = << >>
       \/ Contains(unwrap(TheOption.allowed_values), Call.option_value)

C2_ValueUnchanged ==
    Called =>
      /\ SatisfiesSchema => Call.result = Ok(Call.option_value)
      /\ Call.result.ok => Call.result.val = Call.option_value

\* A successful call whose value is not in the form its type prints ("+5").
C2_Witness ==
    /\ Called
    /\ SatisfiesSchema
    /\ TheOption.datatype.type = "integer"
    /\ I64ToString(ParseI64(Call.option_value).val) # Call.option_value
    /\ Call.result = Ok(Call.option_value)

(***************************************************************************)
(* C3: with as_of_version A and a parseable product version P, the call    *)
(* fails with VersionNotSupported (option name, P, A) when P < A and       *)
(* never with that error when P >= A.                                      *)
(***************************************************************************)
C3_VersionNotSupported ==
    (Indexed /\ P.ok /\ A.ok) =>
      IF Version_lt(P.val, A.val)
      THEN Call.result = Err(VersionNotSupported(Call.option_name, Version_to_string(P.val), Version_to_string(A.val)))
      ELSE ~Failed("VersionNotSupported")

\* A pre-release of the option's own version is below it.
C3_Witness ==
    /\ Indexed /\ P.ok /\ A.ok
    /\ P.val.pre # << >>
    /\ << P.val.major, P.val.minor, P.val.patch >> = << A.val.major, A.val.minor, A.val.patch >>
    /\ Failed("VersionNotSupported")

(***************************************************************************)
(* C4: with deprecated_since D, the call fails with VersionDeprecated      *)
(* (option name, product version, D) for every product version P >= D      *)
(* that the option's as_of_version supports, whatever the value; and for   *)
(* every P >= D, whatever the as_of_version, the call does not succeed.    *)
(***************************************************************************)
C4_DeprecatedWhereSupported ==
    (Indexed /\ HasD /\ P.ok /\ D.ok /\ Version_le(D.val, P.val)) =>
      /\ ~Call.result.ok
      /\ (A.ok /\ Version_le(A.val, P.val)) =>
            Call.result = Err(VersionDeprecated(Call.option_name, Version_to_string(P.val), Version_to_string(D.val)))

\* A deprecated option called at its deprecation version with a wrong value.
C4_Witness ==
    /\ Indexed /\ HasD /\ P.ok /\ D.ok
    /\ P.val = D.val
    /\ ~TypeStage.ok
    /\ Failed("VersionDeprecated")

\* C4 as stated: VersionDeprecated for every P >= D, regardless of the
\* as_of_version.
C4_AsStated ==
    (Indexed /\ HasD /\ P.ok /\ D.ok /\ Version_le(D.val, P.val)) =>
      Call.result = Err(VersionDeprecated(Call.option_name, Version_to_string(P.val), Version_to_string(D.val)))

(***************************************************************************)
(* C5: a String option's min/max bound the length of the value: a          *)
(* non-empty value shorter than min fails with ConfigValueOutOfBounds      *)
(* (received = length, expected = min), a value longer than max with       *)
(* ConfigValueOutOfBounds (received = length, expected = max).             *)
(***************************************************************************)
ValueLen == UsizeOf(Len(Call.option_value))
MinLen == ParseUsize(unwrap(TheOption.datatype.min))
MaxLen == ParseUsize(unwrap(TheOption.datatype.max))

C5_StringLengthBounds ==
    (Indexed /\ VersionStage.ok /\ TheOption.datatype.type = "string" /\ Call.option_value # << >>) =>
      /\ (is_some(TheOption.datatype.min) /\ MinLen.ok /\ I64Lt(ValueLen, MinLen.val)) =>
            Call.result = Err(ConfigValueOutOfBounds(Call.option_name, I64ToString(ValueLen), I64ToString(MinLen.val)))
      /\ (is_some(TheOption.datatype.max) /\ MaxLen.ok /\ I64Lt(MaxLen.val, ValueLen)) =>
            \/ Call.result = Err(ConfigValueOutOfBounds(Call.option_name, I64ToString(ValueLen), I64ToString(MaxLen.val)))
            \/ is_some(TheOption.datatype.min) /\ Failed("ConfigValueOutOfBounds")

(***************************************************************************)
(* C6: an Integer option past the version gate, its configured bounds      *)
(* parseable: empty value -> ConfigValueMissing; not an integer ->         *)
(* DatatypeNotMatching naming i64; v < min -> ConfigValueOutOfBounds       *)
(* (v, min); v > max -> ConfigValueOutOfBounds (v, max); otherwise the     *)
(* type stage passes.  The min bound is checked first.                     *)
(***************************************************************************)
IntValue == ParseI64(Call.option_value)
IntMin == ParseI64(unwrap(TheOption.datatype.min))
IntMax == ParseI64(unwrap(TheOption.datatype.max))
HasMin == is_some(TheOption.datatype.min)
HasMax == is_some(TheOption.datatype.max)
IntegerCall ==
    /\ Indexed /\ VersionStage.ok
    /\ TheOption.datatype.type = "integer"
    /\ HasMin => IntMin.ok
    /\ HasMax => IntMax.ok

C6_IntegerBounds ==
    IntegerCall =>
      IF Call.option_value = << >>
      THEN Call.result = Err(ConfigValueMissing(Call.option_name))
      ELSE IF ~IntValue.ok
      THEN Call.result = Err(DatatypeNotMatching(Call.option_name, Call.option_value, << "i", "6", "4" >>))
      ELSE IF HasMin /\ I64Lt(IntValue.val, IntMin.val)
      THEN Call.result = Err(ConfigValueOutOfBounds(Call.option_name, I64ToString(IntValue.val), I64ToString(IntMin.val)))
      ELSE IF HasMax /\ I64Lt(IntMax.val, IntValue.val)
      THEN Call.result = Err(ConfigValueOutOfBounds(Call.option_name, I64ToString(IntValue.val), I64ToString(IntMax.val)))
      ELSE Call.result.ok \/ Failed("ConfigValueNotInAllowedValues")

\* A value below min and above max: the min bound is the one reported.
C6_Witness ==
    /\ IntegerCall /\ HasMin /\ HasMax /\ IntValue.ok
    /\ I64Lt(IntValue.val, IntMin.val)
    /\ I64Lt(IntMax.val, IntValue.val)
    /\ Failed("ConfigValueOutOfBounds")
    /\ Call.result.err.expected = I64ToString(IntMin.val)

(***************************************************************************)
(* C7: a Bool option past the version gate: the empty value fails with     *)
(* ConfigValueMissing, every other value that is not "true" or "false"     *)
(* fails with DatatypeNotMatching naming bool, and the type stage gives    *)
(* no other error.                                                         *)
(***************************************************************************)
BoolCall == Indexed /\ VersionStage.ok /\ TheOption.datatype.type = "bool"

C7_BoolLiteralOrMissing ==
    BoolCall =>
      IF Call.option_value = << >>
      THEN Call.result = Err(ConfigValueMissing(Call.option_name))
      ELSE IF Call.option_value \notin { vTrue, vFalse }
      THEN Call.result = Err(DatatypeNotMatching(Call.option_name, Call.option_value, << "b", "o", "o", "l" >>))
      ELSE Call.result.ok \/ Failed("ConfigValueNotInAllowedValues")

\* The empty value given to a Bool option.
C7_Witness ==
    /\ BoolCall
    /\ Call.option_value = << >>
    /\ Failed("ConfigValueMissing")

\* C7 as stated: every value that is not a boolean literal, the empty string
\* included, fails with DatatypeNotMatching naming bool.
C7_AsStated ==
    (BoolCall /\ Call.option_value \notin { vTrue, vFalse }) =>
      Call.result = Err(DatatypeNotMatching(Call.option_name, Call.option_value, << "b", "o", "o", "l" >>))

(***************************************************************************)
(* C8: past the version gate and the type stage, a present, non-empty      *)
(* allow-list lets the call succeed exactly when the value is a member     *)
(* and otherwise fails it with ConfigValueNotInAllowedValues (option       *)
(* name, value, the whole list in schema order); an absent or empty list   *)
(* rejects nothing.                                                        *)
(***************************************************************************)
AllowedCall == Indexed /\ VersionStage.ok /\ TypeStage.ok
AllowList == unwrap(TheOption.allowed_values)

C8_AllowedValues ==
    AllowedCall =>
      IF is_some(TheOption.allowed_values) /\ AllowList # << >>
      THEN IF \E i \in 1..Len(AllowList) : AllowList[i] = Call.option_value
           THEN Call.result = Ok(Call.option_value)
           ELSE Call.result = Err(ConfigValueNotInAllowedValues(Call.option_name, Call.option_value, AllowList))
      ELSE Call.result.ok

\* A value of the right type that is not in the option's list.
C8_Witness ==
    /\ AllowedCall
    /\ is_some(TheOption.allowed_values)
    /\ Len(AllowList) > 1
    /\ Failed("ConfigValueNotInAllowedValues")
    /\ Call.result.err.allowed_values = AllowList

(***************************************************************************)
(* C9: Config::new returns an engine exactly when the schema source        *)
(* succeeds and every unit has a non-empty name and a present, non-empty,  *)
(* compilable pattern; otherwise it returns the source's error or that of  *)
(* the first malformed unit in document order (empty name, then            *)
(* missing/empty pattern, then uncompilable pattern).  The unit table of   *)
(* an engine has exactly the names of the schema's units.                  *)
(***************************************************************************)
Constructed == config # None
Built == unwrap(config)
Read == config_reader.read
SchemaUnits == Read.val.config_settings.unit
Malformed(unit) ==
    \/ unit.name = << >>
    \/ unit.regex = None
    \/ unit.regex = Some(<< >>)
    \/ ~Regex_new(unwrap(unit.regex)).ok
UnitError(unit) ==
    IF unit.name = << >> THEN ConfigSettingNotFound(<< "u", "n", "i", "t" >>)
    ELSE IF unit.regex = None \/ unit.regex = Some(<< >>) THEN EmptyRegexPattern(unit.name)
    ELSE InvalidRegexPattern(unit.name, unwrap(unit.regex))
FirstMalformed == CHOOSE i \in 1..Len(SchemaUnits) : Malformed(SchemaUnits[i]) /\ \A j \in 1..(i - 1) : ~Malformed(SchemaUnits[j])

C9_ConstructionAllOrNothing ==
    Constructed =>
      IF ~Read.ok THEN Built = Err(Read.err)
      ELSE IF \E i \in 1..Len(SchemaUnits) : Malformed(SchemaUnits[i])
      THEN Built = Err(UnitError(SchemaUnits[FirstMalformed]))
      ELSE /\ Built.ok
           /\ DOMAIN Built.val.config_setting_units = { SchemaUnits[i].name : i \in 1..Len(SchemaUnits) }

\* A well-formed unit, then one with an empty name and a pattern that does
\* not compile: the empty name is the error.
C9_Witness ==
    /\ Constructed /\ Read.ok
    /\ Len(SchemaUnits) > 1
    /\ ~Malformed(SchemaUnits[1])
    /\ SchemaUnits[2].name = << >>
    /\ is_some(SchemaUnits[2].regex) /\ ~Regex_new(unwrap(SchemaUnits[2].regex)).ok
    /\ ~Built.ok
    /\ Built.err.kind = "ConfigSettingNotFound"

(***************************************************************************)
(* C10: the option index of an engine has exactly the alias names of the   *)
(* schema's options as keys, each mapped to the last option in document    *)
(* order that lists it; two aliases of one option, neither overwritten by  *)
(* a later option, give the same outcome (success or error kind) for the   *)
(* same product version and value.                                         *)
(***************************************************************************)
SchemaOptions == Read.val.config_options
Lists(i, name) == \E j \in 1..Len(SchemaOptions[i].option_names) : SchemaOptions[i].option_names[j].name = name
AliasNames == UNION { { SchemaOptions[i].option_names[j].name : j \in 1..Len(SchemaOptions[i].option_names) } : i \in 1..Len(SchemaOptions) }
LastListing(name) == CHOOSE i \in 1..Len(SchemaOptions) : Lists(i, name) /\ \A k \in (i + 1)..Len(SchemaOptions) : ~Lists(k, name)
Outcome(r) == IF r.ok THEN "Ok" ELSE r.err.kind

C10_OptionIndex ==
    (Constructed /\ Built.ok) =>
      /\ DOMAIN Engine.config_options = AliasNames
      /\ \A name \in DOMAIN Engine.config_options :
            Engine.config_options[name] = SchemaOptions[LastListing(name)]
      /\ Indexed =>
            \A other \in DOMAIN Engine.config_options :
               LastListing(other) = LastListing(Call.option_name) =>
                  Outcome(validate(Engine, Call.product_version, other, Call.option_value)) = Outcome(Call.result)

\* A call by a name that two options list, the later of which has another alias.
C10_Witness ==
    /\ Indexed
    /\ \E i \in 1..Len(SchemaOptions) : i # LastListing(Call.option_name) /\ Lists(i, Call.option_name)
    /\ \E other \in DOMAIN Engine.config_options :
          other # Call.option_name /\ LastListing(other) = LastListing(Call.option_name)

(***************************************************************************)
(* C11: a String option past the version gate reports the first failure    *)
(* of: empty value -> ConfigValueMissing; no unit on the datatype ->       *)
(* UnitNotProvided; unit not in the unit table -> UnitSettingNotFound      *)
(* (option, unit); no match of the unit's pattern in the value ->          *)
(* DatatypeRegexNotMatching.  An option without unit, or with a unit the   *)
(* schema does not define, is built into the engine and never validates;   *)
(* the undefined unit gives UnitSettingNotFound for every non-empty value  *)
(* past the version gate, and the empty value gives ConfigValueMissing.    *)
(***************************************************************************)
StringCall == Indexed /\ VersionStage.ok /\ TheOption.datatype.type = "string"
TheUnit == unwrap(TheOption.datatype.unit)
UnitTable == Engine.config_setting_units
NoUnit == is_none(TheOption.datatype.unit)
UndefinedUnit == is_some(TheOption.datatype.unit) /\ TheUnit \notin DOMAIN UnitTable

StringStageOrder ==
    StringCall =>
      IF Call.option_value = << >>
      THEN Call.result = Err(ConfigValueMissing(Call.option_name))
      ELSE IF NoUnit
      THEN Call.result = Err(UnitNotProvided(Call.option_name))
      ELSE IF UndefinedUnit
      THEN Call.result = Err(UnitSettingNotFound(Call.option_name, TheUnit))
      ELSE IF ~is_match(UnitTable[TheUnit], Call.option_value)
      THEN Call.result = Err(DatatypeRegexNotMatching(Call.option_name, Call.option_value))
      ELSE Call.result.ok \/ Failed("ConfigValueNotInAllowedValues")

C11_StringStage ==
    /\ StringStageOrder
    /\ (Indexed /\ TheOption.datatype.type = "string" /\ (NoUnit \/ UndefinedUnit)) => ~Call.result.ok
    /\ (StringCall /\ UndefinedUnit /\ Call.option_value # << >>) => Failed("UnitSettingNotFound")

\* The empty value given to a String option whose unit the schema does not
\* define: the emptiness is the error.
C11_Witness ==
    /\ StringCall
    /\ UndefinedUnit
    /\ Call.option_value = << >>
    /\ Failed("ConfigValueMissing")

\* C11 as stated: the undefined unit makes every call (past the version
\* gate) fail with UnitSettingNotFound.
C11_AsStated ==
    /\ StringStageOrder
    /\ (Indexed /\ TheOption.datatype.type = "string" /\ NoUnit) => ~Call.result.ok
    /\ (StringCall /\ UndefinedUnit) => Call.result = Err(UnitSettingNotFound(Call.option_name, TheUnit))

(***************************************************************************)
(* C12: the type stage of an Array option checks nothing: the call fails   *)
(* only by the version gate or the allowed-values gate and otherwise       *)
(* succeeds for every value, the empty one included, whatever the          *)
(* option's unit, accepted_units and default_unit.                         *)
(***************************************************************************)
ArrayCall == Indexed /\ TheOption.datatype.type = "array"

C12_ArrayPassThrough ==
    ArrayCall =>
      IF ~VersionStage.ok THEN Call.result = VersionStage
      ELSE IF /\ is_some(TheOption.allowed_values)
              /\ AllowList # << >>
              /\ \A i \in 1..Len(AllowList) : AllowList[i] # Call.option_value
      THEN Call.result = Err(ConfigValueNotInAllowedValues(Call.option_name, Call.option_value, AllowList))
      ELSE Call.result = Ok(Call.option_value)

\* The empty value given to an Array option whose unit the schema does not
\* define.
C12_Witness ==
    /\ ArrayCall
    /\ is_some(TheOption.datatype.unit)
    /\ unwrap(TheOption.datatype.unit) \notin DOMAIN UnitTable
    /\ is_some(TheOption.datatype.accepted_units)
    /\ Call.option_value = << >>
    /\ Call.result = Ok(<< >>)

=============================================================================
